---- MODULE Spec2Model ----
(***************************************************************************)
(* A model of SKUtils (package sku): the stage wrapper                     *)
(* SKTransformerWrapperDD, the pipeline builder and executor               *)
(* (pipeline_constructor, PipelineDD, Pipeline) and the search             *)
(* orchestrator PipelineSearchCV.                                          *)
(*                                                                         *)
(* Each component has its own specification over the shared variables:     *)
(*   SpecWrapper   one SKTransformerWrapperDD driven by fit / transform /  *)
(*                 fit_transform calls and attribute accesses              *)
(*   SpecParams    one SKTransformerWrapperDD driven by set_params and     *)
(*                 fit / transform / fit_transform calls                   *)
(*   SpecBuilder   calls of pipeline_constructor                           *)
(*   SpecPipelineDD  one PipelineDD driven by fit / score calls            *)
(*   SpecPipeline  one Pipeline driven by fit and by predict /             *)
(*                 predict_proba / predict_log_proba with overrides        *)
(*   SpecSearch    one PipelineSearchCV.fit, its evaluations of            *)
(*                 (pipeline, grid point) and their fold units             *)
(***************************************************************************)
EXTENDS Integers, Sequences, FiniteSets, TLC

----------------------------------------------------------------------------
(* Bounds *)

\* largest number of groups in a fit_on / transform_on specification
MaxGroups == 2
\* array contents are the numbers 0 .. ValMod-1
ValMod == 2
\* number of fit / fit_transform calls on one wrapper in a behaviour
MaxFits == 2
\* largest number of tokens in a pipeline name
MaxTokens == 3
\* largest number of steps of a pipeline
MaxSteps == 3
\* largest number of keyword overrides in one predict call
MaxOverrides == 2
\* number of rows of the data given to the search
NRows == 3
\* n_splits of the KFold splitter given to the search
KFoldSplits == 2
\* number of metrics given to the search
NMetrics == 2
\* number of transform groups of the long transform_on specification
RolloverGroups == 5
\* number of fit groups of the long fit_on specification
FanOutGroups == 3
\* number of set_params calls on one wrapper in a behaviour
MaxSets == 2

----------------------------------------------------------------------------
(* Values: the DataDict and what it holds *)

\* keys of the data dictionary
Keys == {"X", "y"}

\* a numpy array, abstracted to one number
Arr(n) == [a |-> n]
NdArrays == {Arr(n) : n \in 0..(ValMod - 1)}

\* a tuple of outputs, as returned by a transform that has one output per
\* argument
Tup(s) == [t |-> s]

IsNdarray(X) == DOMAIN X = {"a"}

\* a data dictionary: a function from some of the keys to arrays; the
\* dictionaries used as inputs have the features "X", with or without "y"
DataDicts == UNION {[ks -> NdArrays] : ks \in {{"X"}, Keys}}

EmptyDict == [k \in {} |-> Arr(0)]

\* copy.deepcopy of a value of the model: values are immutable here, so the
\* copy has the same contents
deepcopy(X) == X

\* X_out = copy.deepcopy(X): the object the write-backs of a call go to, a
\* new dictionary with the contents of X
CopyOf_alias(X) == [alias |-> TRUE, d |-> X]

CopyOf(X) == [alias |-> FALSE, d |-> deepcopy(X)]

\* the caller's dictionary X after a call whose write-backs turned the
\* object c into X_out
CallerAfter(X, c, X_out) == IF c.alias THEN X_out ELSE X

\* a group of a fit_on / transform_on specification: positional keys
Groups == {<<"X">>, <<"X", "y">>}
GroupLists == UNION {[1..n -> Groups] : n \in 1..MaxGroups}
\* a transform_on specification with more groups than any fit_on has
RolloverSpec == [i \in 1..RolloverGroups |-> <<"X">>]

\* a fit_on specification with FanOutGroups groups
FanOutSpec == [i \in 1..FanOutGroups |-> <<"X">>]

\* the keyword arguments the wrapped transformer is constructed with
KwArgs == 0..(ValMod - 1)

\* the parameters the constructor of the wrapped class takes
KwNames == {"p", "q"}

\* the values of parameters: a plain value; an initiated estimator, which
\* has get_params() of its own; the name of an estimator's class
Plain(n) == [kind |-> "plain", n |-> n]
EstValue(nested) == [kind |-> "estimator", nested |-> nested]
ClassName == [kind |-> "name"]

\* d.update(e) and d[k] = v of dictionaries
Update(d, e) ==
    [k \in DOMAIN d \cup DOMAIN e |-> IF k \in DOMAIN e THEN e[k] ELSE d[k]]
Put(d, k, v) == Update(d, [x \in {k} |-> v])

\* the kwargs p = n
Kw(n) == [k \in {"p"} |-> Plain(n)]

\* what the parameter p of an instance adds in its transform; its default
\* is 0
KwShift(kw) ==
    IF "p" \in DOMAIN kw /\ kw["p"].kind = "plain" THEN kw["p"].n ELSE 0

\* self._transformer_class(**kwargs) raises TypeError for a keyword that is
\* not a parameter of the class
ValidKwargs(kw) == DOMAIN kw \subseteq KwNames

----------------------------------------------------------------------------
VARIABLES
    \* SKTransformerWrapperDD
    fitted_transformers,  \* _fitted_transformers: [none, items]
    fit_on,               \* normalised list of fit groups
    transform_on,         \* normalised list of transform groups
    all_key_transform,    \* bool
    params_transformer,   \* _params_transformer: constructor kwargs
    transformer_init,     \* _transformer_init: the template instance
    params_show,          \* _params_transformer_show
    self_params,          \* _params: the dictionary get_params returns
    has_fit_transform,    \* hasattr(self._transformer_init, 'fit_transform')
    n_fits,               \* number of fit / fit_transform calls so far
    n_sets,               \* number of set_params calls so far
    w_last,               \* the last call on the wrapper and its outcome
    \* pipeline_constructor
    b_last,               \* the last call on the builder or on a step of the
                          \* pipeline it built, and the pipeline
    b_reg,                \* name_to_object: the state of the registry's templates
    \* PipelineDD / Pipeline
    steps,                \* self.steps: the named steps, in order
    p_last,               \* the last call on the pipeline and its outcome
    \* PipelineSearchCV
    s_cfg,                \* pipeline_names, param_grid, cv, n_jobs
    s_X,                  \* the caller's data dictionary
    s_pc,                 \* where fit is: init, loop, folds, done, raised
    s_err,                \* the exception fit raised
    s_pos,                \* the (pipeline, grid point) fit is at
    s_progress,           \* tqdm_progress: total and n
    s_eval,               \* the evaluation in progress and its fold units
    s_evals,              \* the evaluations made so far, in order
    s_results,            \* the rows of results
    s_ids,                \* number of uuid4() calls made
    s_columns             \* the columns of the table fit returned

wvars == <<fitted_transformers, fit_on, transform_on, all_key_transform,
           params_transformer, transformer_init, params_show, self_params,
           has_fit_transform, n_fits, n_sets, w_last>>

bvars == <<b_last, b_reg>>

pvars == <<steps, p_last>>

svars == <<s_cfg, s_X, s_pc, s_err, s_pos, s_progress, s_eval, s_evals,
           s_results, s_ids, s_columns>>

vars == <<fitted_transformers, fit_on, transform_on, all_key_transform,
          params_transformer, transformer_init, params_show, self_params,
          has_fit_transform, n_fits, n_sets, w_last, b_last,
          b_reg, steps, p_last, s_cfg, s_X, s_pc, s_err, s_pos, s_progress, s_eval,
          s_evals, s_results, s_ids, s_columns>>

----------------------------------------------------------------------------
(* SKTransformerWrapperDD *)

\* self._fitted_transformers = None
NoneFitted == [none |-> TRUE, items |-> <<>>]
\* self._fitted_transformers = [...]
ListFitted(s) == [none |-> FALSE, items |-> s]

\* _prepare_func_on_args(spec, X): the keys of the groups that X lacks
MissingKeys(spec, X) ==
    {k \in Keys : (\E i \in 1..Len(spec) : \E j \in 1..Len(spec[i]) :
                      spec[i][j] = k) /\ k \notin DOMAIN X}

\* _prepare_func_on_args(spec, X): the positional arguments of group i
PosArgs(spec, X, i) == [j \in 1..Len(spec[i]) |-> X[spec[i][j]]]

\* self._transformer_class(**self._params_transformer) followed by
\* .fit(*pos_args): the instance keeps its kwargs and what it learned
NewInstance(id, kw, args) == [id |-> id, kw |-> kw, learned |-> args[1].a]

\* an instance that was constructed and not fitted has learned nothing
Unfitted == 0 - 1

\* self._transformer_class(**self._params_transformer): the template
\* instance, the n-th one built
Template(n, kw) == [id |-> 0 - n, kw |-> kw, learned |-> Unfitted]

\* self._params_transformer_show after __init__: the get_params() of the
\* template, every parameter of the class with the value given or its
\* default
ShowOf(kw) ==
    [k \in KwNames |-> IF k \in DOMAIN kw THEN kw[k] ELSE Plain(0)]

\* self._params after __init__
ParamsOf(template, f_on, t_on, akt, show) ==
    Update([k \in {"transformer", "fit_on", "transform_on",
                   "all_key_transform"} |->
               IF k = "transformer" THEN template
               ELSE IF k = "fit_on" THEN f_on
               ELSE IF k = "transform_on" THEN t_on
               ELSE akt],
           show)

\* the wrapped transformer's transform of one array
EstTransformOne(inst, v) ==
    Arr((v.a + inst.learned + KwShift(inst.kw)) % ValMod)

\* the wrapped transformer's .transform(*pos_args): one output for one
\* argument, a tuple of outputs for several
EstTransform(inst, args) ==
    IF Len(args) = 1 THEN EstTransformOne(inst, args[1])
    ELSE Tup([j \in 1..Len(args) |-> EstTransformOne(inst, args[j])])

\* the write-back of one group's outputs into X_out
WriteGroup_allkeys(X_out, input_keys, outputs, akt) ==
    [k \in DOMAIN X_out |->
        IF \E j \in 1..Len(input_keys) : input_keys[j] = k THEN outputs
        ELSE X_out[k]]

WriteGroup(X_out, input_keys, outputs, akt) ==
    IF akt
    THEN LET outs == IF Len(input_keys) = 1 THEN <<outputs>> ELSE outputs.t
             n == IF Len(outs) < Len(input_keys) THEN Len(outs)
                  ELSE Len(input_keys)
             \* zip(input_keys, outputs): a later pair overwrites an earlier
             \* one with the same key
             last(k) == CHOOSE j \in 1..n :
                           /\ input_keys[j] = k
                           /\ \A h \in (j + 1)..n : input_keys[h] # k
         IN [k \in DOMAIN X_out |->
               IF \E j \in 1..n : input_keys[j] = k THEN outs[last(k)]
               ELSE X_out[k]]
    ELSE [X_out EXCEPT ![input_keys[1]] = outputs]

\* the position in the list of the fitted instance that transform group nk
\* uses: self._fitted_transformers[nk % len(self._fitted_transformers)]
GroupInstance_clamped(items, nk) == IF nk < Len(items) THEN nk + 1 ELSE Len(items)

GroupInstance(items, nk) == (nk % Len(items)) + 1

\* the loop of transform over the transform groups nk = 0 .. M-1
RECURSIVE TransformLoop(_, _, _, _, _, _)
TransformLoop(X_out, X, items, spec, akt, nk) ==
    IF nk >= Len(spec) THEN X_out
    ELSE LET inst == items[GroupInstance(items, nk)]
             outputs == EstTransform(inst, PosArgs(spec, X, nk + 1))
         IN TransformLoop(WriteGroup(X_out, spec[nk + 1], outputs, akt),
                          X, items, spec, akt, nk + 1)

\* the index of the fitted instance each transform group used
UsedInstances(items, spec) ==
    [i \in 1..Len(spec) |-> items[GroupInstance(items, i - 1)].id]

\* the outcome of transform(X) on a wrapper holding ft: the exception or the
\* returned data, the ids of the instances used, and the caller's X after
\* the call
TransformOutcome(ft, X, spec, akt) ==
    IF ft.none
    THEN [err |-> "NotFitted", ret |-> EmptyDict, used |-> <<>>, after |-> X]
    ELSE IF IsNdarray(X)
    THEN IF ft.items = <<>>
         THEN [err |-> "IndexError", ret |-> EmptyDict, used |-> <<>>,
               after |-> X]
         ELSE [err |-> "none", ret |-> EstTransformOne(ft.items[1], X),
               used |-> <<ft.items[1].id>>, after |-> X]
    ELSE IF MissingKeys(spec, X) # {}
    THEN [err |-> "KeyError", ret |-> EmptyDict, used |-> <<>>, after |-> X]
    ELSE IF ft.items = <<>>
    THEN [err |-> "ZeroDivisionError", ret |-> EmptyDict, used |-> <<>>,
          after |-> X]
    ELSE LET X_out == TransformLoop(CopyOf(X).d, X, ft.items, spec, akt, 0)
         IN [err |-> "none", ret |-> X_out,
             used |-> UsedInstances(ft.items, spec),
             after |-> CallerAfter(X, CopyOf(X), X_out)]

\* the objects one fit or fit_transform call constructs are numbered from
\* n_fits * IdStride + 1
IdStride == MaxGroups + FanOutGroups

\* the instances fit constructs for the groups 1 .. n, with ids from id0 + 1
FitInstances_first(spec, X, kw, id0, n) ==
    [i \in 1..(IF n > 1 THEN 1 ELSE n) |->
        NewInstance(id0 + i, kw, PosArgs(spec, X, i))]

FitInstances(spec, X, kw, id0, n) ==
    [i \in 1..n |-> NewInstance(id0 + i, kw, PosArgs(spec, X, i))]

\* the outcome of fit(X): failAt is the group on which the wrapped
\* transformer's fit raises (0: on none)
FitOutcome(X, y, spec, kw, id0, failAt) ==
    IF IsNdarray(X)
    THEN IF ~ValidKwargs(kw)
         THEN [err |-> "TypeError", fitted |-> ListFitted(<<>>), made |-> 0]
         ELSE IF failAt = 1
         THEN [err |-> "FitError", fitted |-> ListFitted(<<>>), made |-> 1]
         ELSE [err |-> "none",
               fitted |-> ListFitted(<<NewInstance(id0 + 1, kw, <<X>>)>>),
               made |-> 1]
    ELSE IF MissingKeys(spec, X) # {}
    THEN [err |-> "KeyError", fitted |-> ListFitted(<<>>), made |-> 0]
    ELSE IF ~ValidKwargs(kw)
    THEN [err |-> "TypeError", fitted |-> ListFitted(<<>>), made |-> 0]
    ELSE IF failAt \in 1..Len(spec)
    THEN [err |-> "FitError",
          fitted |-> ListFitted(FitInstances(spec, X, kw, id0, failAt - 1)),
          made |-> failAt]
    ELSE [err |-> "none",
          fitted |-> ListFitted(FitInstances(spec, X, kw, id0, Len(spec))),
          made |-> Len(spec)]

\* the loop of fit_transform over the fit groups, all of them fitted
RECURSIVE FitTransformLoop(_, _, _, _, _, _)
FitTransformLoop(X_out, X, items, spec, akt, nk) ==
    IF nk >= Len(spec) THEN X_out
    ELSE LET outputs == EstTransform(items[nk + 1], PosArgs(spec, X, nk + 1))
         IN FitTransformLoop(WriteGroup(X_out, spec[nk + 1], outputs, akt),
                             X, items, spec, akt, nk + 1)

WrapperStart ==
    /\ fitted_transformers = NoneFitted
    /\ fit_on \in GroupLists \cup {FanOutSpec}
    /\ transform_on \in GroupLists \cup {RolloverSpec}
    /\ all_key_transform \in BOOLEAN
    /\ params_transformer = Kw(0)
    /\ transformer_init = Template(0, params_transformer)
    /\ params_show = ShowOf(params_transformer)
    /\ self_params = ParamsOf(transformer_init, fit_on, transform_on,
                              all_key_transform, params_show)
    /\ has_fit_transform \in BOOLEAN
    /\ n_fits = 0
    /\ n_sets = 0
    /\ w_last = [op |-> "init", X |-> EmptyDict, err |-> "none",
                 ret |-> EmptyDict, used |-> <<>>, prev |-> NoneFitted,
                 after |-> EmptyDict]

\* SKTransformerWrapperDD.fit(X, y)
fit(X, failAt) ==
    LET o == FitOutcome(X, Arr(0), fit_on, params_transformer, n_fits * IdStride, failAt)
    IN /\ n_fits < MaxFits
       /\ fitted_transformers' = o.fitted
       /\ n_fits' = n_fits + 1
       /\ w_last' = [op |-> "fit", X |-> X, err |-> o.err, ret |-> EmptyDict,
                     used |-> <<>>, prev |-> fitted_transformers,
                     after |-> X]
       /\ UNCHANGED <<fit_on, transform_on, all_key_transform,
                      params_transformer, transformer_init, params_show,
                      self_params, has_fit_transform, n_sets>>

\* SKTransformerWrapperDD.transform(X)
transform(X) ==
    LET o == TransformOutcome(fitted_transformers, X, transform_on,
                              all_key_transform)
    IN /\ w_last' = [op |-> "transform", X |-> X, err |-> o.err,
                     ret |-> o.ret, used |-> o.used,
                     prev |-> fitted_transformers, after |-> o.after]
       /\ UNCHANGED <<fitted_transformers, fit_on, transform_on,
                      all_key_transform, params_transformer,
                      transformer_init, params_show, self_params,
                      has_fit_transform, n_fits, n_sets>>

\* SKTransformerWrapperDD.fit_transform(X, y)
fit_transform(X, failAt) ==
    LET o == FitOutcome(X, Arr(0), fit_on, params_transformer, n_fits * IdStride, failAt)
        \* the fall-back: self.fit(X=X, y=y); return self.transform(X=X)
        t == TransformOutcome(o.fitted, X, transform_on, all_key_transform)
        ret == IF o.err # "none" THEN EmptyDict
               ELSE IF ~has_fit_transform THEN t.ret
               ELSE IF IsNdarray(X) THEN EstTransformOne(o.fitted.items[1], X)
               ELSE FitTransformLoop(CopyOf(X).d, X, o.fitted.items, fit_on,
                                     all_key_transform, 0)
        err == IF o.err # "none" THEN o.err
               ELSE IF ~has_fit_transform THEN t.err ELSE "none"
    IN /\ n_fits < MaxFits
       /\ fitted_transformers' = o.fitted
       /\ n_fits' = n_fits + 1
       /\ w_last' = [op |-> "fit_transform", X |-> X, err |-> err,
                     ret |-> ret,
                     used |-> IF o.err = "none" /\ ~has_fit_transform
                              THEN t.used ELSE <<>>,
                     prev |-> fitted_transformers,
                     after |-> IF o.err # "none" THEN X
                               ELSE IF ~has_fit_transform THEN t.after
                               ELSE IF IsNdarray(X) THEN X
                               ELSE CallerAfter(X, CopyOf(X), ret)]
       /\ UNCHANGED <<fit_on, transform_on, all_key_transform,
                      params_transformer, transformer_init, params_show,
                      self_params, has_fit_transform, n_sets>>

\* the attributes asked of the wrapper that it does not define itself: a
\* fitted attribute of the wrapped transformer, a method of it, and a name
\* it does not have
AttrNames == {"learned_", "inverse_transform", "missing"}

\* hasattr(instance, name): the fitted attribute exists once fit has run
HasAttr(inst, name) ==
    \/ name = "inverse_transform"
    \/ name = "learned_" /\ inst.learned # Unfitted

\* callable(getattr(instance, name))
Callable(name) == name = "inverse_transform"

\* getattr(instance, name) of a fitted attribute
GetAttr(inst, name) == inst.learned

\* getattr(instance, name)(arg) of a method: its result or its exception
CallAttr(inst, name, arg) ==
    IF inst.learned = Unfitted THEN [err |-> "NotFittedError", v |-> Arr(0)]
    ELSE [err |-> "none",
          v |-> Arr((arg.a + 2 * ValMod - inst.learned - KwShift(inst.kw))
                       % ValMod)]

\* what __getattr__ and its wrapper hand back for the list of per-instance
\* results: the only element of a list of length one, else the list
Collapse_list(s) == [list |-> TRUE, vals |-> s]

Collapse(s) ==
    IF Len(s) = 1 THEN [list |-> FALSE, vals |-> s]
    ELSE [list |-> TRUE, vals |-> s]

\* the outcome of wrapper.name for an attribute, of wrapper.name(arg) for a
\* method
GetAttrOutcome(ft, template, name, arg) ==
    LET attr_list == IF ft.none THEN <<template>> ELSE ft.items
    IN IF ft.none /\ ~HasAttr(template, name)
       THEN [err |-> "AttributeError", ret |-> Collapse(<<>>)]
       ELSE IF ~ft.none /\ ft.items = <<>>
       THEN [err |-> "IndexError", ret |-> Collapse(<<>>)]
       ELSE IF ~ft.none /\ ~HasAttr(ft.items[1], name)
       THEN [err |-> "AttributeError", ret |-> Collapse(<<>>)]
       ELSE IF Callable(name)
       THEN LET return_list == [i \in 1..Len(attr_list) |->
                                   CallAttr(attr_list[i], name, arg)]
            IN IF \E i \in 1..Len(attr_list) : return_list[i].err # "none"
               THEN [err |-> "NotFittedError", ret |-> Collapse(<<>>)]
               ELSE [err |-> "none",
                     ret |-> Collapse([i \in 1..Len(attr_list) |->
                                         return_list[i].v])]
       ELSE [err |-> "none",
             ret |-> Collapse([i \in 1..Len(attr_list) |->
                                 GetAttr(attr_list[i], name)])]

\* SKTransformerWrapperDD.__getattr__(name), followed by the call of what it
\* returned when that is callable
getattr(name, arg) ==
    LET o == GetAttrOutcome(fitted_transformers, transformer_init, name, arg)
    IN /\ w_last' = [op |-> "getattr", X |-> EmptyDict, err |-> o.err,
                     ret |-> o.ret, used |-> <<>>,
                     prev |-> fitted_transformers, after |-> EmptyDict,
                     name |-> name,
                     arg |-> IF Callable(name) THEN arg ELSE Arr(0)]
       /\ UNCHANGED <<fitted_transformers, fit_on, transform_on,
                      all_key_transform, params_transformer,
                      transformer_init, params_show, self_params,
                      has_fit_transform, n_fits, n_sets>>

\* SKTransformerWrapperDD.get_params(): the dictionary _params itself
get_params == self_params

\* the values set_params is given for a parameter of the wrapped class: plain
\* values, an estimator without parameters and one with a parameter r
SetValues ==
    {Plain(n) : n \in KwArgs}
        \cup {EstValue(EmptyDict), EstValue([k \in {"r"} |-> Plain(1)])}

\* a class given as the parameter transformer
OtherClass == [class |-> "Other"]

\* the calls set_params(k = v) made: k a parameter of the wrapped class, of
\* the wrapper, or a name that is no parameter
SetCalls ==
    {[k |-> "p", v |-> Plain(n)] : n \in KwArgs}
        \cup {[k |-> "q", v |-> v] : v \in SetValues}
        \cup {[k |-> "fit_on", v |-> <<<<"X">>, <<"X", "y">>>>],
              [k |-> "transform_on", v |-> <<<<"X", "y">>>>],
              [k |-> "all_key_transform", v |-> TRUE]}
        \cup {[k |-> "transformer", v |-> OtherClass],
              [k |-> "bogus", v |-> Plain(0)]}

\* self._fitted_transformers after set_params: no statement of set_params
\* assigns it
FittedAfterSetParams_reset(ft) == NoneFitted

FittedAfterSetParams(ft) == ft

\* the template set_params builds from the kwargs kw, the n-th after the
\* first
RebuiltTemplate(tmpl, kw) == Template(1 - tmpl.id, kw)

\* SKTransformerWrapperDD.set_params(k = v): the loop over the one key, then
\* BaseEstimator.set_params, which checks the key against get_params() and
\* does setattr(self, k, v) and get_params()[k] = v
set_params(k, v) ==
    LET in_show == k \in DOMAIN params_show
        is_est == in_show /\ v.kind = "estimator"
        \* params[key] as super().set_params receives it
        given == IF is_est THEN ClassName ELSE v
        pt == IF ~in_show THEN params_transformer
              ELSE IF is_est
              THEN Update(Put(params_transformer, k, v), v.nested)
              ELSE Put(params_transformer, k, v)
        show == IF in_show THEN Put(params_show, k, given) ELSE params_show
        pr1 == IF in_show THEN Update(self_params, show) ELSE self_params
        pr2 == IF k \in DOMAIN pr1 THEN Put(pr1, k, v) ELSE pr1
        tmpl == RebuiltTemplate(transformer_init, pt)
        pr3 == Put(pr2, "transformer", tmpl)
        err == IF ~ValidKwargs(pt) THEN "TypeError"
               ELSE IF k \notin DOMAIN pr3 THEN "ValueError"
               \* transformer is a property without a setter
               ELSE IF k = "transformer" THEN "AttributeError"
               ELSE "none"
    IN /\ n_sets < MaxSets
       /\ n_sets' = n_sets + 1
       /\ params_transformer' = pt
       /\ params_show' = show
       /\ transformer_init' =
             IF err = "TypeError" THEN transformer_init ELSE tmpl
       /\ self_params' = IF err = "TypeError" THEN pr2
                         ELSE IF err = "none" THEN Put(pr3, k, given)
                         ELSE pr3
       /\ fit_on' = IF err = "none" /\ k = "fit_on" THEN v ELSE fit_on
       /\ transform_on' =
             IF err = "none" /\ k = "transform_on" THEN v ELSE transform_on
       /\ all_key_transform' =
             IF err = "none" /\ k = "all_key_transform" THEN v
             ELSE all_key_transform
       /\ fitted_transformers' = FittedAfterSetParams(fitted_transformers)
       /\ w_last' = [op |-> "set_params", X |-> EmptyDict, err |-> err,
                     ret |-> EmptyDict, used |-> <<>>,
                     prev |-> fitted_transformers, after |-> EmptyDict,
                     k |-> k, v |-> v,
                     listed |-> k \in DOMAIN self_params,
                     prev_kw |-> params_transformer,
                     prev_init |-> transformer_init]
       /\ UNCHANGED <<has_fit_transform, n_fits>>

\* the data given to the wrapper whose parameters are set: dictionaries
\* with features and labels, and a bare array
ParamData == {d \in DataDicts : DOMAIN d = Keys /\ d["y"] = Arr(0)} \cup {Arr(0)}

\* a wrapper made with the default fit_on and transform_on
ParamsStart ==
    /\ fitted_transformers = NoneFitted
    /\ fit_on = <<<<"X", "y">>>>
    /\ transform_on = <<<<"X">>>>
    /\ all_key_transform = FALSE
    /\ params_transformer = Kw(0)
    /\ transformer_init = Template(0, params_transformer)
    /\ params_show = ShowOf(params_transformer)
    /\ self_params = ParamsOf(transformer_init, fit_on, transform_on,
                              all_key_transform, params_show)
    /\ has_fit_transform \in BOOLEAN
    /\ n_fits = 0
    /\ n_sets = 0
    /\ w_last = [op |-> "init", X |-> EmptyDict, err |-> "none",
                 ret |-> EmptyDict, used |-> <<>>, prev |-> NoneFitted,
                 after |-> EmptyDict]

\* a wrapper on which no call is made
WrapperIdle ==
    /\ fitted_transformers = NoneFitted
    /\ fit_on = <<<<"X", "y">>>>
    /\ transform_on = <<<<"X">>>>
    /\ all_key_transform = FALSE
    /\ params_transformer = Kw(0)
    /\ transformer_init = Template(0, params_transformer)
    /\ params_show = ShowOf(params_transformer)
    /\ self_params = ParamsOf(transformer_init, fit_on, transform_on,
                              all_key_transform, params_show)
    /\ has_fit_transform = TRUE
    /\ n_fits = 0
    /\ n_sets = 0
    /\ w_last = [op |-> "init", X |-> EmptyDict, err |-> "none",
                 ret |-> EmptyDict, used |-> <<>>, prev |-> NoneFitted,
                 after |-> EmptyDict]

----------------------------------------------------------------------------
(* pipeline_constructor *)

\* Strings are sequences of characters.  The registry's tokens:
TokA == <<"a">>
TokA1 == <<"a", "1">>
TokB == <<"b">>
\* a token no registry holds
TokZ == <<"z">>
Tokens == {TokA, TokA1, TokB, TokZ}

\* the registries name_to_object (their keys)
Registries == {{TokA, TokB}, {TokA, TokA1, TokB}}

\* the delimiter of a pipeline name
Delim == <<"-", "-">>

\* "--".join(tokens)
RECURSIVE Join(_)
Join(toks) ==
    IF Len(toks) = 1 THEN toks[1]
    ELSE toks[1] \o Delim \o Join(Tail(toks))

\* the token sequences of the pipeline names: every sequence of up to
\* MaxTokens tokens, and one in which a token occurs three times
TokenSeqs ==
    UNION {[1..n -> Tokens] : n \in 1..MaxTokens}
        \cup {<<TokA, TokB, TokA, TokA>>}

\* the pipeline names given to pipeline_constructor
PipelineNames == {Join(toks) : toks \in TokenSeqs}

\* name.split("--"): cut at every occurrence of the delimiter, scanning from
\* the left; cur is the piece read so far
RECURSIVE SplitFrom(_, _)
SplitFrom(s, cur) ==
    IF s = <<>> THEN <<cur>>
    ELSE IF Len(s) >= 2 /\ SubSeq(s, 1, 2) = Delim
         THEN <<cur>> \o SplitFrom(SubSeq(s, 3, Len(s)), <<>>)
         ELSE SplitFrom(Tail(s), Append(cur, s[1]))

Split(s) == SplitFrom(s, <<>>)

\* str(n) for n >= 0
DigitChars == <<"0", "1", "2", "3", "4", "5", "6", "7", "8", "9">>
RECURSIVE Str(_)
Str(n) ==
    IF n < 10 THEN <<DigitChars[n + 1]>>
    ELSE Str(n \div 10) \o <<DigitChars[(n % 10) + 1]>>

\* list.count(v)
Count(seq, v) == Cardinality({i \in 1..Len(seq) : seq[i] = v})

\* names_in_pipeline: a token that occurs more than once gets the number of
\* its occurrence appended
NamesInPipeline_total(objects) ==
    [i \in 1..Len(objects) |->
        IF Count(objects, objects[i]) > 1
        THEN objects[i] \o Str(Count(objects, objects[i]))
        ELSE objects[i]]

NamesInPipeline(objects) ==
    [i \in 1..Len(objects) |->
        IF Count(objects, objects[i]) > 1
        THEN objects[i] \o Str(Count(SubSeq(objects, 1, i - 1), objects[i]) + 1)
        ELSE objects[i]]

\* the state of an estimator object: a parameter and whether it is fitted
TemplateState == [p |-> 0, fitted |-> FALSE]

\* the object name_to_object holds for a token
TemplateRef(tok) == [origin |-> "template", token |-> tok, pos |-> 0]

\* copy.deepcopy(name_to_object[object]) for the token at position pos: a new
\* object with the state the template has
CopyObject_shared(tok, pos, reg) ==
    [ref |-> TemplateRef(tok), state |-> reg[tok]]

CopyObject(tok, pos, reg) ==
    [ref |-> [origin |-> "copy", token |-> tok, pos |-> pos],
     state |-> deepcopy(reg[tok])]

\* pipeline_constructor(name, name_to_object): the steps of the PipelineDD it
\* returns, or the KeyError of a token that is not in the registry.  The
\* PipelineDD constructor stores the steps as given.
PipelineConstructor(name, registry) ==
    LET objects == Split(name)
        names == NamesInPipeline(objects)
    IN IF \E i \in 1..Len(objects) : objects[i] \notin registry
       THEN [err |-> "KeyError", steps |-> <<>>]
       ELSE [err |-> "none",
             steps |-> [i \in 1..Len(objects) |->
                          [name |-> names[i], object |-> objects[i],
                           ref |-> CopyObject(objects[i], i, b_reg).ref,
                           state |-> CopyObject(objects[i], i, b_reg).state]]]

\* a change of the state of the object r to st, seen by every holder of r:
\* the steps of the pipeline and the registry
WriteObject(stps, reg, r, st) ==
    [steps |-> [i \in 1..Len(stps) |->
                  IF stps[i].ref = r THEN [stps[i] EXCEPT !.state = st]
                  ELSE stps[i]],
     reg |-> [t \in DOMAIN reg |-> IF TemplateRef(t) = r THEN st ELSE reg[t]]]

\* the record of a call on the builder or on a step of the built pipeline
BCall(op, name, registry, err, stps, target, prev) ==
    [op |-> op, name |-> name, registry |-> registry, err |-> err,
     steps |-> stps, target |-> target, prev |-> prev]

\* no call of pipeline_constructor has been made
BuilderIdle ==
    /\ b_last = BCall("init", <<>>, {}, "none", <<>>, 0, <<>>)
    /\ b_reg = [t \in Tokens |-> TemplateState]

\* pipeline_constructor(name, name_to_object)
pipeline_constructor(name, registry) ==
    LET o == PipelineConstructor(name, registry)
    IN /\ b_last' = BCall("construct", name, registry, o.err, o.steps, 0, <<>>)
       /\ UNCHANGED b_reg

\* pipeline.steps[i][1].set_params(p=v) on the pipeline built last
built_set_params(i, v) ==
    /\ i \in 1..Len(b_last.steps)
    /\ LET w == WriteObject(b_last.steps, b_reg, b_last.steps[i].ref,
                            [b_last.steps[i].state EXCEPT !.p = v])
       IN /\ b_last' = BCall("set_params", b_last.name, b_last.registry,
                             "none", w.steps, i, b_last.steps)
          /\ b_reg' = w.reg

\* pipeline.steps[i][1].fit(X) or fit_transform(X) on the pipeline built
\* last
built_fit(i) ==
    /\ i \in 1..Len(b_last.steps)
    /\ LET w == WriteObject(b_last.steps, b_reg, b_last.steps[i].ref,
                            [b_last.steps[i].state EXCEPT !.fitted = TRUE])
       IN /\ b_last' = BCall("fit", b_last.name, b_last.registry,
                             "none", w.steps, i, b_last.steps)
          /\ b_reg' = w.reg

----------------------------------------------------------------------------
(* The steps of a pipeline *)

\* a SKTransformerWrapperDD as a step of a pipeline
Stage(f_on, t_on, akt) ==
    [kind |-> "transformer", fit_on |-> f_on, transform_on |-> t_on,
     all_key_transform |-> akt, kw |-> Kw(1), fitted |-> NoneFitted]

\* scales the features
StageX == Stage(<<<<"X">>>>, <<<<"X">>>>, FALSE)
\* recodes the labels: its transform writes the key "y"
StageY == Stage(<<<<"y">>>>, <<<<"y">>>>, FALSE)
StageChoices == {StageX, StageY}

\* the terminal step: a model fitted on (X, y) that predicts from X
ModelStage ==
    [kind |-> "model", fit_on |-> <<<<"X", "y">>>>,
     transform_on |-> <<<<"X">>>>, all_key_transform |-> FALSE, kw |-> Kw(0),
     fitted |-> NoneFitted]

\* the name of the step at position i
StepName(i) == <<"s">> \o Str(i)

NamedSteps(ests) == [i \in 1..Len(ests) |-> [name |-> StepName(i), est |-> ests[i]]]

\* the pipelines: transformers followed by the model
PipelineChoices ==
    {NamedSteps(ts \o <<ModelStage>>) :
        ts \in UNION {[1..n -> StageChoices] : n \in 0..(MaxSteps - 1)}}

\* hasattr(layer, "transform")
HasTransform(est) == est.kind = "transformer"

\* step lists in which a step without transform comes before the last step
MixedChoices ==
    {NamedSteps(es) :
        es \in {es \in UNION {[1..n -> StageChoices \cup {ModelStage}] :
                                n \in 2..MaxSteps} :
                  \E i \in 1..(Len(es) - 1) : ~HasTransform(es[i])}}

\* the keys a step's transform writes in the data dictionary
WrittenKeys(est) ==
    {k \in Keys : \E i \in 1..Len(est.transform_on) :
        IF est.all_key_transform
        THEN \E j \in 1..Len(est.transform_on[i]) : est.transform_on[i][j] = k
        ELSE est.transform_on[i][1] = k}

\* step.fit_transform(Xt) of a transformer step
StageFitTransform(est, Xt) ==
    LET o == FitOutcome(Xt, Arr(0), est.fit_on, est.kw, 0, 0)
        X_out == FitTransformLoop(CopyOf(Xt).d, Xt, o.fitted.items,
                                  est.fit_on, est.all_key_transform, 0)
    IN IF o.err # "none"
       THEN [err |-> o.err, ret |-> EmptyDict,
             est |-> [est EXCEPT !.fitted = o.fitted], after |-> Xt]
       ELSE [err |-> "none", ret |-> X_out,
             est |-> [est EXCEPT !.fitted = o.fitted],
             after |-> CallerAfter(Xt, CopyOf(Xt), X_out)]

\* step.transform(Xt): of a transformer step, or the AttributeError of a
\* step that has no transform
StageTransform(est, Xt) ==
    IF ~HasTransform(est)
    THEN [err |-> "AttributeError", ret |-> EmptyDict, used |-> <<>>,
          after |-> Xt]
    ELSE TransformOutcome(est.fitted, Xt, est.transform_on,
                          est.all_key_transform)

\* model.fit(Xt) of the terminal step
ModelFit(est, Xt) ==
    LET o == FitOutcome(Xt, Arr(0), est.fit_on, est.kw, 0, 0)
    IN [err |-> o.err, est |-> [est EXCEPT !.fitted = o.fitted]]

\* model.predict(Xt) of the terminal step
ModelPredict(est, Xt) ==
    IF est.fitted.none \/ est.fitted.items = <<>>
    THEN [err |-> "NotFitted", ret |-> EmptyDict]
    ELSE IF MissingKeys(est.transform_on, Xt) # {}
    THEN [err |-> "KeyError", ret |-> EmptyDict]
    ELSE [err |-> "none",
          ret |-> EstTransformOne(est.fitted.items[1], Xt["X"])]

\* model.score(Xt, labels) of the terminal step: 1 when the prediction is
\* the label, else 0
ModelScore(est, Xt, labels) ==
    LET q == ModelPredict(est, Xt)
    IN IF q.err # "none" THEN [err |-> q.err, score |-> 0]
       ELSE [err |-> "none", score |-> IF q.ret = labels THEN 1 ELSE 0]

----------------------------------------------------------------------------
(* PipelineDD *)

\* Pipeline.fit, which PipelineDD.fit calls: fit_transform of the steps
\* i .. n-1 in order, each on the output of the one before, then fit of the
\* last step
RECURSIVE FitSteps(_, _, _)
FitSteps(stps, i, Xt) ==
    IF i = Len(stps)
    THEN LET o == ModelFit(stps[i].est, Xt)
         IN [err |-> o.err, steps |-> [stps EXCEPT ![i].est = o.est]]
    ELSE LET o == StageFitTransform(stps[i].est, Xt)
             stps1 == [stps EXCEPT ![i].est = o.est]
         IN IF o.err # "none" THEN [err |-> o.err, steps |-> stps1]
            ELSE FitSteps(stps1, i + 1, o.ret)

\* transform of the steps i .. last in order, each on the output of the one
\* before; n is the number of transform calls made
RECURSIVE TransformSteps(_, _, _, _)
TransformSteps(stps, i, last, Xt) ==
    IF i > last THEN [err |-> "none", ret |-> Xt, n |-> 0]
    ELSE LET o == StageTransform(stps[i].est, Xt)
         IN IF o.err # "none" THEN [err |-> o.err, ret |-> EmptyDict, n |-> 1]
            ELSE LET r == TransformSteps(stps, i + 1, last, o.ret)
                 IN [r EXCEPT !.n = @ + 1]

\* Pipeline._validate_steps, which fit calls: every step before the last
\* has transform
ValidSteps(stps) == \A i \in 1..(Len(stps) - 1) : HasTransform(stps[i].est)

\* the next position of the loop of transform after the step i, which has
\* no transform: the loop goes on
AfterNonTransform_stop(stps, i) == Len(stps) + 1

AfterNonTransform(stps, i) == i + 1

\* the loop of PipelineDD.transform from step i on: passed is passed_predict,
\* warned the names of the steps a warning was given for
RECURSIVE PddTransformLoop(_, _, _, _, _)
PddTransformLoop(stps, i, X_copy, passed, warned) ==
    IF i > Len(stps)
    THEN [err |-> "none", ret |-> X_copy, warned |-> warned]
    ELSE IF HasTransform(stps[i].est)
    THEN LET w == IF passed THEN Append(warned, stps[i].name) ELSE warned
             o == StageTransform(stps[i].est, X_copy)
         IN IF o.err # "none"
            THEN [err |-> o.err, ret |-> EmptyDict, warned |-> w]
            ELSE PddTransformLoop(stps, i + 1, o.ret, passed, w)
    ELSE PddTransformLoop(stps, AfterNonTransform(stps, i), X_copy, TRUE,
                          warned)

\* PipelineDD.transform(X)
PddTransformOutcome(stps, X) ==
    LET o == PddTransformLoop(stps, 1, CopyOf(X).d, FALSE, <<>>)
    IN [err |-> o.err, ret |-> o.ret, warned |-> o.warned,
        after |-> IF o.err # "none" THEN X
                  ELSE CallerAfter(X, CopyOf(X), o.ret)]

\* the argument y of score: a key, an array, or anything else
YKey(k) == [kind |-> "str", key |-> k]
YArray(v) == [kind |-> "ndarray", v |-> v]
YOther == [kind |-> "other"]
YArgs == {YKey(k) : k \in Keys} \cup {YArray(v) : v \in NdArrays} \cup {YOther}

\* ScoreLabels with the labels of a key read from the features
ScoreLabels_features(X_copy, y) ==
    IF y.kind = "str"
    THEN IF y.key \in DOMAIN X_copy
         THEN [err |-> "none", labels |-> X_copy["X"]]
         ELSE [err |-> "KeyError", labels |-> EmptyDict]
    ELSE IF y.kind = "ndarray"
    THEN [err |-> "none", labels |-> y.v]
    ELSE [err |-> "TypeError", labels |-> EmptyDict]

\* the labels score resolves from y after the transforms
ScoreLabels(X_copy, y) ==
    IF y.kind = "str"
    THEN IF y.key \in DOMAIN X_copy
         THEN [err |-> "none", labels |-> X_copy[y.key]]
         ELSE [err |-> "KeyError", labels |-> EmptyDict]
    ELSE IF y.kind = "ndarray"
    THEN [err |-> "none", labels |-> y.v]
    ELSE [err |-> "TypeError", labels |-> EmptyDict]

\* PipelineDD.score(X, y): invoked is the number of transform calls made
ScoreOutcome(stps, X, y) ==
    LET t == TransformSteps(stps, 1, Len(stps) - 1, CopyOf(X).d)
        after == IF t.err # "none" THEN X ELSE CallerAfter(X, CopyOf(X), t.ret)
    IN IF t.err # "none"
       THEN [err |-> t.err, labels |-> EmptyDict, score |-> 0,
             invoked |-> t.n, after |-> after]
       ELSE LET l == ScoreLabels(t.ret, y)
            IN IF l.err # "none"
               THEN [err |-> l.err, labels |-> EmptyDict, score |-> 0,
                     invoked |-> t.n, after |-> after]
               ELSE LET sc == ModelScore(stps[Len(stps)].est, t.ret, l.labels)
                    IN [err |-> sc.err, labels |-> l.labels,
                        score |-> sc.score, invoked |-> t.n,
                        after |-> after]

\* the record of a call on the pipeline
PCall(op, X, y, params, err, ret, labels, score, calls, after) ==
    [op |-> op, X |-> X, y |-> y, params |-> params, err |-> err,
     ret |-> ret, labels |-> labels, score |-> score, calls |-> calls,
     after |-> after]

\* a pipeline on which no call is made
PipelineIdle ==
    /\ steps = <<>>
    /\ p_last = PCall("init", EmptyDict, YOther, <<>>, "none", EmptyDict,
                      EmptyDict, 0, <<>>, EmptyDict)

PipelineStart ==
    /\ steps \in PipelineChoices
    /\ p_last = PCall("init", EmptyDict, YOther, <<>>, "none", EmptyDict,
                      EmptyDict, 0, <<>>, EmptyDict)

\* a PipelineDD given any list of steps
PipelineDDStart ==
    /\ steps \in PipelineChoices \cup MixedChoices
    /\ p_last = PCall("init", EmptyDict, YOther, <<>>, "none", EmptyDict,
                      EmptyDict, 0, <<>>, EmptyDict)

\* PipelineDD.fit(X)
pdd_fit(X) ==
    LET o == IF ValidSteps(steps) THEN FitSteps(steps, 1, X)
             ELSE [err |-> "TypeError", steps |-> steps]
    IN /\ steps' = o.steps
       /\ p_last' = PCall("fit", X, YOther, <<>>, o.err, EmptyDict,
                          EmptyDict, 0, <<>>, X)

\* the calls of transform that score made: those of the first n steps
ScoreCalls(stps, n) ==
    [i \in 1..n |-> [name |-> stps[i].name, method |-> "transform",
                     kwargs |-> {}]]

\* PipelineDD.score(X, y)
pdd_score(X, y) ==
    LET o == ScoreOutcome(steps, X, y)
    IN /\ p_last' = PCall("score", X, y, <<>>, o.err, EmptyDict, o.labels,
                          o.score, ScoreCalls(steps, o.invoked), o.after)
       /\ UNCHANGED steps

\* PipelineDD.transform(X); the names warned for are kept as the calls
pdd_transform(X) ==
    LET o == PddTransformOutcome(steps, X)
    IN /\ p_last' = PCall("transform", X, YOther, <<>>, o.err, o.ret,
                          EmptyDict, 0, o.warned, o.after)
       /\ UNCHANGED steps

\* steps[i][1].transform(X): the transform of one step, called directly
step_transform(i, X) ==
    /\ i \in 1..Len(steps)
    /\ HasTransform(steps[i].est)
    /\ LET o == StageTransform(steps[i].est, X)
       IN p_last' = PCall("step_transform", X, YOther, <<>>, o.err, o.ret,
                          EmptyDict, 0, <<>>, o.after)
    /\ UNCHANGED steps

\* steps[i][1].fit_transform(X): the fit_transform of one step, called
\* directly
step_fit_transform(i, X) ==
    /\ i \in 1..Len(steps)
    /\ HasTransform(steps[i].est)
    /\ LET o == StageFitTransform(steps[i].est, X)
       IN /\ steps' = [steps EXCEPT ![i].est = o.est]
          /\ p_last' = PCall("step_fit_transform", X, YOther, <<>>, o.err,
                             o.ret, EmptyDict, 0, <<>>, o.after)

----------------------------------------------------------------------------
(* Pipeline: predict, predict_proba, predict_log_proba with overrides *)

\* the separator of "<stepname>__<paramname>"
Sep == <<"_", "_">>

\* "__" in pname
HasSep(pname) ==
    \E i \in 1..(Len(pname) - 1) : SubSeq(pname, i, i + 1) = Sep

\* pname.split("__", 1): the pieces before and after the first separator
FirstSep(pname) ==
    CHOOSE i \in 1..(Len(pname) - 1) :
        /\ SubSeq(pname, i, i + 1) = Sep
        /\ \A h \in 1..(i - 1) : SubSeq(pname, h, h + 1) # Sep
SplitStep(pname) == SubSeq(pname, 1, FirstSep(pname) - 1)
SplitParam(pname) == SubSeq(pname, FirstSep(pname) + 2, Len(pname))

\* the keyword overrides given to predict: their names and values
Override(pname, pval) == [pname |-> pname, pval |-> pval]
OverrideKeys ==
    {Override(StepName(i) \o Sep \o <<"p">>, i) : i \in 1..MaxSteps}
        \cup {Override(<<"p">>, 9)}
\* the overrides of one call, in the order given, no name twice
OverrideLists ==
    {ps \in UNION {[1..n -> OverrideKeys] : n \in 0..MaxOverrides} :
        \A i, j \in 1..Len(ps) : i # j => ps[i].pname # ps[j].pname}

StepNames(stps) == {stps[i].name : i \in 1..Len(stps)}

\* _check_predict_params (the same loop as the _check_fit_params that the
\* predict methods call): the overrides grouped by step name, read in order
\* from position i on; by_step is what has been grouped so far
RECURSIVE CheckPredictParams(_, _, _, _)
CheckPredictParams(stps, params, i, by_step) ==
    IF i > Len(params) THEN [err |-> "none", by_step |-> by_step]
    ELSE IF ~HasSep(params[i].pname)
    THEN [err |-> "ValueError", by_step |-> by_step]
    ELSE IF SplitStep(params[i].pname) \notin StepNames(stps)
    THEN [err |-> "KeyError", by_step |-> by_step]
    ELSE LET step == SplitStep(params[i].pname)
             kw == [param |-> SplitParam(params[i].pname),
                    pval |-> params[i].pval]
         IN CheckPredictParams(stps, params, i + 1,
                [by_step EXCEPT ![step] = @ \cup {kw}])

\* the name of the step whose overrides the terminal call is given:
\* self.steps[1][0]
TerminalParamsStep(stps) == stps[2].name

\* the calls transform(Xt, **kw) of the steps before the last, in order
TransformCalls(stps, by_step) ==
    [i \in 1..(Len(stps) - 1) |->
        [name |-> stps[i].name, method |-> "transform",
         kwargs |-> by_step[stps[i].name]]]

\* Pipeline.predict / predict_proba / predict_log_proba (X, **params)
PredictOutcome(method, stps, X, params) ==
    LET c == CheckPredictParams(stps, params, 1,
                                [n \in StepNames(stps) |-> {}])
        t == TransformSteps(stps, 1, Len(stps) - 1, X)
        q == ModelPredict(stps[Len(stps)].est, t.ret)
    IN IF c.err # "none"
       THEN [err |-> c.err, ret |-> EmptyDict, calls |-> <<>>]
       ELSE IF t.err # "none"
       THEN [err |-> t.err, ret |-> EmptyDict, calls |-> <<>>]
       ELSE IF Len(stps) < 2
       THEN [err |-> "IndexError", ret |-> EmptyDict,
             calls |-> TransformCalls(stps, c.by_step)]
       ELSE [err |-> q.err, ret |-> q.ret,
             calls |-> Append(TransformCalls(stps, c.by_step),
                         [name |-> stps[Len(stps)].name, method |-> method,
                          kwargs |-> c.by_step[TerminalParamsStep(stps)]])]

\* the data given to the predict methods
PredictData == {[k \in Keys |-> IF k = "X" THEN Arr(1) ELSE Arr(0)]}

\* Pipeline.predict(X, **predict_params)
predict(X, params) ==
    LET o == PredictOutcome("predict", steps, X, params)
    IN /\ p_last' = PCall("predict", X, YOther, params, o.err, o.ret,
                          EmptyDict, 0, o.calls, X)
       /\ UNCHANGED steps

\* Pipeline.predict_proba(X, **predict_proba_params)
predict_proba(X, params) ==
    LET o == PredictOutcome("predict_proba", steps, X, params)
    IN /\ p_last' = PCall("predict_proba", X, YOther, params, o.err, o.ret,
                          EmptyDict, 0, o.calls, X)
       /\ UNCHANGED steps

\* Pipeline.predict_log_proba(X, **predict_log_proba_params)
predict_log_proba(X, params) ==
    LET o == PredictOutcome("predict_log_proba", steps, X, params)
    IN /\ p_last' = PCall("predict_log_proba", X, YOther, params, o.err,
                          o.ret, EmptyDict, 0, o.calls, X)
       /\ UNCHANGED steps

----------------------------------------------------------------------------
(* PipelineSearchCV *)

\* the keys of the data given to the search: features, labels, groups and
\* unlabelled data
SearchKeys == {"X", "y", "g", "U"}
split_fit_on == <<"X", "y", "g">>
split_transform_on == <<"X", "y">>

\* an object of the heap, by where it was made
Obj(origin, k, f, part) == [origin |-> origin, key |-> k, fold |-> f, part |-> part]

\* the rows of the caller's arrays
CallerRows(k) ==
    IF k = "X" THEN [i \in 1..NRows |-> 10 + i]
    ELSE IF k = "y" THEN [i \in 1..NRows |-> i % 2]
    ELSE IF k = "g" THEN [i \in 1..NRows |-> (i + 1) \div 2]
    ELSE <<7>>

\* the data dictionary the caller gives to fit
CallerData ==
    [k \in SearchKeys |-> [obj |-> Obj("caller", k, 0, "all"), rows |-> CallerRows(k)]]

\* the elements of a set of numbers in increasing order
RECURSIVE SortedSeq(_)
SortedSeq(S) ==
    IF S = {} THEN <<>>
    ELSE LET m == CHOOSE x \in S : \A z \in S : x <= z
         IN <<m>> \o SortedSeq(S \ {m})

\* the argument groups of get_n_splits
NoGroups == [none |-> TRUE]
GroupsArg(v) == [none |-> FALSE, rows |-> v.rows]

DistinctRows(rows) == {rows[i] : i \in 1..Len(rows)}

\* cv.get_n_splits(groups): KFold returns n_splits; LeaveOneGroupOut counts
\* the groups and raises ValueError without them
GetNSplits(cv, groups) ==
    IF cv = "KFold" THEN [err |-> "none", n |-> KFoldSplits]
    ELSE IF groups.none THEN [err |-> "ValueError", n |-> 0]
    ELSE [err |-> "none", n |-> Cardinality(DistinctRows(groups.rows))]

\* the rows KFold puts in the test set of fold j
KFoldTest(j) ==
    LET size(h) == (NRows \div KFoldSplits)
                      + (IF h <= NRows % KFoldSplits THEN 1 ELSE 0)
        RECURSIVE start(_)
        start(h) == IF h = 1 THEN 0 ELSE start(h - 1) + size(h - 1)
    IN {i \in 1..NRows : start(j) < i /\ i <= start(j) + size(j)}

\* list(cv.split(X, y, groups)): the (train_idx, test_idx) of the folds
CvSplit(cv, X) ==
    LET n == Len(X[split_fit_on[1]].rows)
        fold(test) == [train_idx |-> SortedSeq((1..n) \ test),
                       test_idx |-> SortedSeq(test)]
    IN IF cv = "KFold"
       THEN [j \in 1..KFoldSplits |-> fold(KFoldTest(j))]
       ELSE LET g == X[split_fit_on[3]].rows
                gs == SortedSeq(DistinctRows(g))
            IN [j \in 1..Len(gs) |-> fold({i \in 1..n : g[i] = gs[j]})]

\* v[idx]: indexing an array by an array of indices makes a new array
IndexRows_whole(v, idx, k, f, part) ==
    [obj |-> Obj("indexed", k, f, part), rows |-> v.rows]

IndexRows(v, idx, k, f, part) ==
    [obj |-> Obj("indexed", k, f, part),
     rows |-> [j \in 1..Len(idx) |-> v.rows[idx[j]]]]

\* the X a fold unit works on: with n_jobs = 1 the caller's dictionary, with
\* n_jobs > 1 the copy that was serialised to the worker process
WorkerX(X, n_jobs, f) ==
    IF n_jobs = 1 THEN X
    ELSE [k \in DOMAIN X |-> [obj |-> Obj("pickled", k, f, "all"), rows |-> X[k].rows]]

InSplitTransformOn(k) == \E i \in 1..Len(split_transform_on) : split_transform_on[i] = k

\* train_data and test_data of fold f; X is what the caller's dictionary is
\* afterwards
SplitData_inplace(X, Xw, train_idx, test_idx, f) ==
    [train |-> [k \in DOMAIN Xw |->
                  IF InSplitTransformOn(k)
                  THEN IndexRows(Xw[k], train_idx, k, f, "train") ELSE Xw[k]],
     test |-> [k \in DOMAIN Xw |->
                  IF InSplitTransformOn(k)
                  THEN IndexRows(Xw[k], test_idx, k, f, "test") ELSE Xw[k]],
     X |-> [k \in DOMAIN X |->
                  IF InSplitTransformOn(k)
                  THEN IndexRows(X[k], train_idx, k, f, "train") ELSE X[k]]]

SplitData(X, Xw, train_idx, test_idx, f) ==
    [train |-> [k \in DOMAIN Xw |->
                  IF InSplitTransformOn(k)
                  THEN IndexRows(Xw[k], train_idx, k, f, "train") ELSE Xw[k]],
     test |-> [k \in DOMAIN Xw |->
                  IF InSplitTransformOn(k)
                  THEN IndexRows(Xw[k], test_idx, k, f, "test") ELSE Xw[k]],
     X |-> X]

\* the names of the metrics
MetricName(i) == <<"m">> \o Str(i)

\* the flattened parameter names a grid may give
ParamOf(name) == name \o Sep \o <<"p">>

\* a grid point: None, or parameter names with values
GPNone == [none |-> TRUE, kv |-> {}]
GP(names) == [none |-> FALSE, kv |-> {[k |-> n, v |-> 1] : n \in names}]

\* self.param_grid
Grids ==
    { <<GPNone>>,
      <<GP({ParamOf(TokA)}), GP({ParamOf(<<"q">>)})>>,
      <<GP({ParamOf(TokB), ParamOf(<<"q">>)}), GP({ParamOf(TokB)})>> }

\* pipeline_names
NameLists ==
    { <<Join(<<TokA, TokB>>)>>,
      <<Join(<<TokA, TokB>>), TokB>>,
      <<TokB, Join(<<TokZ, TokB>>)>> }

\* name_to_object
SearchRegistry == {TokA, TokB}

SearchConfigs ==
    [pipeline_names : NameLists, param_grid : Grids,
     cv : {"KFold", "LeaveOneGroupOut"}, n_jobs : {1, 2}]

\* the keys of pipeline.get_params(): the steps and their parameters
PipelineParamNames(stps) ==
    {stps[i].name : i \in 1..Len(stps)}
        \cup {ParamOf(stps[i].name) : i \in 1..Len(stps)}

\* {k: v for k, v in pipeline_update_params.items() if k in pipeline_params}
FilterUpdates(gp, stps) == {u \in gp.kv : u.k \in PipelineParamNames(stps)}

\* pipeline.get_params() after set_params(**updates)
ParamsAfter(stps, updates) ==
    [k \in {ParamOf(stps[i].name) : i \in 1..Len(stps)} |->
        IF \E u \in updates : u.k = k
        THEN (CHOOSE u \in updates : u.k = k).v
        ELSE stps[CHOOSE i \in 1..Len(stps) : ParamOf(stps[i].name) = k].state.p]

\* a fold unit that has not started
PendingFold ==
    [st |-> "pending", pipe |-> 0, train |-> EmptyDict, test |-> EmptyDict,
     rows |-> <<>>]

\* no evaluation in progress
NoEval ==
    [active |-> FALSE, pipeline |-> <<>>, metrics |-> <<>>, train_id |-> 0,
     param_updates |-> GPNone, params |-> EmptyDict, splits |-> <<>>,
     folds |-> <<>>, pipe_fit |-> <<>>]

\* the next (pipeline, grid point) of the loops of fit and
\* _grid_test_pipeline
NextPos(pos, cfg) ==
    IF pos.gi < Len(cfg.param_grid) THEN [pi |-> pos.pi, gi |-> pos.gi + 1]
    ELSE [pi |-> pos.pi + 1, gi |-> 1]

\* the pipeline object fold unit f works on: with n_jobs = 1 the one built
\* by _test_pipeline (0); with n_jobs > 1 the copy serialised to the worker
\* with the batch of f, a new one (f) or, when f is in the batch of a
\* finished fold unit whose worker is free, the copy of that batch
PipeChoices_shared(f, folds, n_jobs) == {0}

PipeChoices(f, folds, n_jobs) ==
    IF n_jobs = 1 THEN {0}
    ELSE {f} \cup {folds[h].pipe : h \in
                     {h \in 1..Len(folds) :
                        /\ folds[h].st = "done"
                        /\ \A g \in 1..Len(folds) :
                              folds[g].st = "fitted" => folds[g].pipe # folds[h].pipe}}

\* results_single_split of fold f: the metrics of the test predictions, then
\* those of the train predictions; seen is the fold the pipeline was fitted
\* on when it predicted
FoldRows_test(f, seen) ==
    [j \in 1..NMetrics |->
        [metric |-> MetricName(j), value |-> seen, split_number |-> f - 1,
         train_or_test |-> "test"]]

FoldRows(f, seen) ==
    [j \in 1..(2 * NMetrics) |->
        [metric |-> MetricName(((j - 1) % NMetrics) + 1),
         value |-> seen,
         split_number |-> f - 1,
         train_or_test |-> IF j <= NMetrics THEN "test" ELSE "train"]]

\* pd.json_normalize(results_temp, record_path='metrics', meta=[...]): one
\* row per record of metrics, none for an empty list
RECURSIVE AllFoldRows(_, _)
AllFoldRows(folds, i) ==
    IF i > Len(folds) THEN <<>> ELSE folds[i].rows \o AllFoldRows(folds, i + 1)

JsonNormalize(metrics, ev, cv) ==
    [j \in 1..Len(metrics) |->
        [pipeline |-> ev.pipeline, split_number |-> metrics[j].split_number,
         train_or_test |-> metrics[j].train_or_test,
         metric |-> metrics[j].metric, value |-> metrics[j].value,
         splitter |-> cv, params |-> ev.params, train_id |-> ev.train_id,
         param_updates |-> ev.param_updates]]

\* uuid.uuid4(), the call after n earlier ones: an identifier that no
\* earlier call returned
uuid4_repeated(n) == 1

uuid4(n) == n + 1

\* a PipelineSearchCV on which fit is not called
SearchIdle ==
    /\ s_cfg = [pipeline_names |-> <<TokB>>, param_grid |-> <<GPNone>>,
                cv |-> "KFold", n_jobs |-> 1]
    /\ s_X = CallerData
    /\ s_pc = "init"
    /\ s_err = "none"
    /\ s_pos = [pi |-> 1, gi |-> 1]
    /\ s_progress = [total |-> 0, n |-> 0]
    /\ s_eval = NoEval
    /\ s_evals = <<>>
    /\ s_results = <<>>
    /\ s_ids = 0
    /\ s_columns = <<>>

\* PipelineSearchCV(...), before fit
SearchStart ==
    /\ s_cfg \in SearchConfigs
    /\ s_X = CallerData
    /\ s_pc = "init"
    /\ s_err = "none"
    /\ s_pos = [pi |-> 1, gi |-> 1]
    /\ s_progress = [total |-> 0, n |-> 0]
    /\ s_eval = NoEval
    /\ s_evals = <<>>
    /\ s_results = <<>>
    /\ s_ids = 0
    /\ s_columns = <<>>

\* PipelineSearchCV.fit(X, y), entry: the progress bar is made
search_fit ==
    /\ s_pc = "init"
    /\ s_pc' = "loop"
    /\ s_progress' =
          [total |-> Len(s_cfg.pipeline_names)
                        * GetNSplits(s_cfg.cv, GroupsArg(s_X[split_fit_on[Len(split_fit_on)]])).n
                        * Len(s_cfg.param_grid),
           n |-> 0]
    /\ UNCHANGED <<s_cfg, s_X, s_err, s_pos, s_eval, s_evals, s_results, s_ids,
                   s_columns>>

\* _test_pipeline, up to the dispatch of the fold units: the pipeline is
\* built, the grid point filtered, and the grid point either skipped or its
\* fold units made
test_pipeline ==
    /\ s_pc = "loop"
    /\ s_pos.pi <= Len(s_cfg.pipeline_names)
    /\ LET name == s_cfg.pipeline_names[s_pos.pi]
           gp == s_cfg.param_grid[s_pos.gi]
           c == PipelineConstructor(name, SearchRegistry)
           upd == FilterUpdates(gp, c.steps)
           skip == ~gp.none /\ upd = {}
           n == GetNSplits(s_cfg.cv, NoGroups)
           ev == [active |-> TRUE, pipeline |-> name, metrics |-> <<>>,
                  train_id |-> uuid4(s_ids),
                  param_updates |-> IF skip \/ gp.none THEN GPNone
                                    ELSE [none |-> FALSE, kv |-> upd],
                  params |-> ParamsAfter(c.steps, upd),
                  splits |-> IF skip THEN <<>> ELSE CvSplit(s_cfg.cv, s_X),
                  folds |-> IF skip THEN <<>>
                            ELSE [f \in 1..Len(CvSplit(s_cfg.cv, s_X)) |-> PendingFold],
                  pipe_fit |-> IF skip THEN <<>>
                               ELSE [i \in 1..(Len(CvSplit(s_cfg.cv, s_X)) + 1) |-> 0]]
           log == [pi |-> s_pos.pi, gi |-> s_pos.gi, train_id |-> ev.train_id,
                   skipped |-> TRUE, first |-> Len(s_results) + 1,
                   last |-> Len(s_results)]
       IN IF c.err # "none"
          THEN /\ s_pc' = "raised"
               /\ s_err' = "UnknownToken"
               /\ UNCHANGED <<s_pos, s_progress, s_eval, s_evals, s_results, s_ids>>
          ELSE IF skip
          THEN /\ s_ids' = s_ids + 1
               /\ s_evals' = Append(s_evals, log)
               /\ IF n.err # "none"
                  THEN /\ s_pc' = "raised"
                       /\ s_err' = "GetNSplitsValueError"
                       /\ UNCHANGED <<s_pos, s_progress, s_eval, s_results>>
                  ELSE /\ s_progress' = [s_progress EXCEPT !.n = @ + n.n]
                       /\ s_results' = s_results \o JsonNormalize(ev.metrics, ev, s_cfg.cv)
                       /\ s_pos' = NextPos(s_pos, s_cfg)
                       /\ UNCHANGED <<s_pc, s_err, s_eval>>
          ELSE /\ s_ids' = s_ids + 1
               /\ s_eval' = ev
               /\ s_pc' = "folds"
               /\ UNCHANGED <<s_pos, s_progress, s_evals, s_results, s_err>>
    /\ UNCHANGED <<s_cfg, s_X, s_columns>>

\* an exception of a fold unit: neither _test_pipeline_parallel, nor
\* joblib.Parallel, nor _test_pipeline, nor fit catches it, so fit raises it
WorkerRaised_caught(err) == [pc |-> "folds", err |-> "none"]

WorkerRaised(err) == [pc |-> "raised", err |-> err]

\* the fold units in progress
InProgress(folds) == {f \in 1..Len(folds) : folds[f].st = "fitted"}

\* fold unit f may start: with n_jobs = 1 the fold units run in order, one
\* after the other; with n_jobs > 1 at most n_jobs of them run at a time
MayStart(f) ==
    /\ s_eval.folds[f].st = "pending"
    /\ IF s_cfg.n_jobs = 1
       THEN \A h \in 1..(f - 1) : s_eval.folds[h].st = "done"
       ELSE Cardinality(InProgress(s_eval.folds)) < s_cfg.n_jobs

\* _test_pipeline_parallel, first half: the train and test data of fold f
\* are made and the pipeline is fitted on the train data
fold_fit(f, pipe, fails) ==
    /\ s_pc = "folds"
    /\ f \in 1..Len(s_eval.folds)
    /\ MayStart(f)
    /\ pipe \in PipeChoices(f, s_eval.folds, s_cfg.n_jobs)
    /\ LET d == SplitData(s_X, WorkerX(s_X, s_cfg.n_jobs, f),
                          s_eval.splits[f].train_idx,
                          s_eval.splits[f].test_idx, f)
       IN /\ s_X' = d.X
          /\ IF fails
             THEN /\ s_eval' = [s_eval EXCEPT
                                  !.folds[f] = [@ EXCEPT !.st = "failed",
                                                  !.pipe = pipe,
                                                  !.train = d.train,
                                                  !.test = d.test]]
                  /\ s_pc' = WorkerRaised("WorkerError").pc
                  /\ s_err' = WorkerRaised("WorkerError").err
             ELSE /\ s_eval' = [s_eval EXCEPT
                                  !.folds[f] = [@ EXCEPT !.st = "fitted",
                                                  !.pipe = pipe,
                                                  !.train = d.train,
                                                  !.test = d.test],
                                  !.pipe_fit[pipe + 1] = f]
                  /\ UNCHANGED <<s_pc, s_err>>
    /\ UNCHANGED <<s_cfg, s_pos, s_progress, s_evals, s_results, s_ids,
                   s_columns>>

\* _test_pipeline_parallel, second half: the pipeline predicts on the train
\* and the test data of fold f and the metrics are computed
fold_evaluate(f, fails) ==
    /\ s_pc = "folds"
    /\ f \in 1..Len(s_eval.folds)
    /\ s_eval.folds[f].st = "fitted"
    /\ IF fails
       THEN /\ s_eval' = [s_eval EXCEPT !.folds[f].st = "failed"]
            /\ s_pc' = WorkerRaised("WorkerError").pc
            /\ s_err' = WorkerRaised("WorkerError").err
       ELSE /\ s_eval' = [s_eval EXCEPT
                            !.folds[f] = [@ EXCEPT !.st = "done",
                               !.rows = FoldRows(f, s_eval.pipe_fit[s_eval.folds[f].pipe + 1])]]
            /\ UNCHANGED <<s_pc, s_err>>
    /\ UNCHANGED <<s_cfg, s_X, s_pos, s_progress, s_evals, s_results, s_ids,
                   s_columns>>

\* _test_pipeline after the fold units, and the concat of
\* _grid_test_pipeline: the metrics are gathered, the progress advanced,
\* the rows added to the results
test_pipeline_finish ==
    /\ s_pc = "folds"
    /\ \A f \in 1..Len(s_eval.folds) : s_eval.folds[f].st = "done"
    /\ s_progress' =
          [s_progress EXCEPT !.n = @ +
              GetNSplits(s_cfg.cv, GroupsArg(s_X[split_fit_on[Len(split_fit_on)]])).n]
    /\ s_results' = s_results
                       \o JsonNormalize(AllFoldRows(s_eval.folds, 1), s_eval, s_cfg.cv)
    /\ s_evals' = Append(s_evals, [pi |-> s_pos.pi, gi |-> s_pos.gi,
                                   train_id |-> s_eval.train_id,
                                   skipped |-> FALSE,
                                   first |-> Len(s_results) + 1,
                                   last |-> Len(s_results)
                                      + Len(AllFoldRows(s_eval.folds, 1))])
    /\ s_eval' = NoEval
    /\ s_pos' = NextPos(s_pos, s_cfg)
    /\ s_pc' = "loop"
    /\ UNCHANGED <<s_cfg, s_X, s_err, s_ids, s_columns>>

\* the columns fit selects for the table it returns
ResultColumns ==
    <<"pipeline", "split_number", "train_or_test", "metric", "value",
      "splitter", "params", "train_id", "param_updates">>

\* fit after the loops: the columns of the table are selected, which raises
\* KeyError when no evaluation gave a row
search_return ==
    /\ s_pc = "loop"
    /\ s_pos.pi > Len(s_cfg.pipeline_names)
    /\ IF s_results = <<>>
       THEN s_pc' = "raised" /\ s_err' = "MissingColumns" /\ UNCHANGED s_columns
       ELSE s_pc' = "done" /\ s_columns' = ResultColumns /\ UNCHANGED s_err
    /\ UNCHANGED <<s_cfg, s_X, s_pos, s_progress, s_eval, s_evals, s_results, s_ids>>

----------------------------------------------------------------------------
(* Specifications *)

WInit == WrapperStart /\ BuilderIdle /\ PipelineIdle /\ SearchIdle

NextWrapper ==
    \/ \E X \in DataDicts \cup NdArrays, failAt \in 0..MaxGroups :
          fit(X, failAt) /\ UNCHANGED <<bvars, pvars, svars>>
    \/ \E X \in DataDicts \cup NdArrays :
          transform(X) /\ UNCHANGED <<bvars, pvars, svars>>
    \/ \E X \in DataDicts \cup NdArrays, failAt \in 0..MaxGroups :
          fit_transform(X, failAt) /\ UNCHANGED <<bvars, pvars, svars>>
    \/ \E name \in AttrNames, arg \in NdArrays :
          getattr(name, arg) /\ UNCHANGED <<bvars, pvars, svars>>

SpecWrapper == WInit /\ [][NextWrapper]_vars

ParInit == ParamsStart /\ BuilderIdle /\ PipelineIdle /\ SearchIdle

NextParams ==
    \/ \E c \in SetCalls :
          set_params(c.k, c.v) /\ UNCHANGED <<bvars, pvars, svars>>
    \/ \E X \in ParamData, failAt \in 0..1 :
          fit(X, failAt) /\ UNCHANGED <<bvars, pvars, svars>>
    \/ \E X \in ParamData :
          transform(X) /\ UNCHANGED <<bvars, pvars, svars>>
    \/ \E X \in ParamData, failAt \in 0..1 :
          fit_transform(X, failAt) /\ UNCHANGED <<bvars, pvars, svars>>

SpecParams == ParInit /\ [][NextParams]_vars

BInit == WrapperIdle /\ BuilderIdle /\ PipelineIdle /\ SearchIdle

NextBuilder ==
    \/ \E name \in PipelineNames, registry \in Registries :
          pipeline_constructor(name, registry) /\ UNCHANGED <<wvars, pvars, svars>>
    \/ \E i \in 1..MaxTokens, v \in 0..1 :
          built_set_params(i, v) /\ UNCHANGED <<wvars, pvars, svars>>
    \/ \E i \in 1..MaxTokens :
          built_fit(i) /\ UNCHANGED <<wvars, pvars, svars>>

SpecBuilder == BInit /\ [][NextBuilder]_vars

PDDInit == WrapperIdle /\ BuilderIdle /\ PipelineDDStart /\ SearchIdle

NextPipelineDD ==
    \/ \E X \in DataDicts : pdd_fit(X) /\ UNCHANGED <<wvars, bvars, svars>>
    \/ \E X \in DataDicts, y \in YArgs :
          pdd_score(X, y) /\ UNCHANGED <<wvars, bvars, svars>>
    \/ \E X \in DataDicts :
          pdd_transform(X) /\ UNCHANGED <<wvars, bvars, svars>>
    \/ \E i \in 1..MaxSteps, X \in DataDicts :
          step_transform(i, X) /\ UNCHANGED <<wvars, bvars, svars>>
    \/ \E i \in 1..MaxSteps, X \in DataDicts :
          step_fit_transform(i, X) /\ UNCHANGED <<wvars, bvars, svars>>

SpecPipelineDD == PDDInit /\ [][NextPipelineDD]_vars

PInit == WrapperIdle /\ BuilderIdle /\ PipelineStart /\ SearchIdle

NextPipeline ==
    \/ \E X \in DataDicts : pdd_fit(X) /\ UNCHANGED <<wvars, bvars, svars>>
    \/ \E X \in PredictData, params \in OverrideLists :
          predict(X, params) /\ UNCHANGED <<wvars, bvars, svars>>
    \/ \E X \in PredictData, params \in OverrideLists :
          predict_proba(X, params) /\ UNCHANGED <<wvars, bvars, svars>>
    \/ \E X \in PredictData, params \in OverrideLists :
          predict_log_proba(X, params) /\ UNCHANGED <<wvars, bvars, svars>>

SpecPipeline == PInit /\ [][NextPipeline]_vars

SInit == WrapperIdle /\ BuilderIdle /\ PipelineIdle /\ SearchStart

NextSearch ==
    \/ search_fit /\ UNCHANGED <<wvars, bvars, pvars>>
    \/ test_pipeline /\ UNCHANGED <<wvars, bvars, pvars>>
    \/ \E f \in 1..NRows, pipe \in 0..NRows, fails \in BOOLEAN :
          fold_fit(f, pipe, fails) /\ UNCHANGED <<wvars, bvars, pvars>>
    \/ \E f \in 1..NRows, fails \in BOOLEAN :
          fold_evaluate(f, fails) /\ UNCHANGED <<wvars, bvars, pvars>>
    \/ test_pipeline_finish /\ UNCHANGED <<wvars, bvars, pvars>>
    \/ search_return /\ UNCHANGED <<wvars, bvars, pvars>>

SpecSearch == SInit /\ [][NextSearch]_vars

----------------------------------------------------------------------------
(* Claims on SKTransformerWrapperDD *)

\* the last call was a fit or fit_transform that raised
FitFailed == w_last.op \in {"fit", "fit_transform"} /\ w_last.err # "none"

\* C1: a fit or fit_transform that fails part-way on a wrapper that already
\* holds fitted instances leaves fitted_instances equal to the complete
\* previous list, never an empty or partially filled one.
C1_RefitAtomic ==
    (FitFailed /\ ~w_last.prev.none /\ w_last.prev.items # <<>>)
        => fitted_transformers = w_last.prev

\* C6: transform on a wrapper that holds no fitted instances (before the
\* first fit, or after a fit that raised before any instance was appended)
\* fails with the not-fitted condition and with no other error.
C6_TransformNotFitted ==
    (w_last.op = "transform"
        /\ (fitted_transformers.none \/ fitted_transformers.items = <<>>))
        => w_last.err = "NotFitted"

\* the last call was a transform of a data dictionary that returned, made
\* directly or by the fit_transform of a wrapper whose transformer has no
\* fit_transform
TransformedDict ==
    /\ \/ w_last.op = "transform"
       \/ w_last.op = "fit_transform" /\ ~has_fit_transform
    /\ w_last.err = "none"
    /\ ~IsNdarray(w_last.X)

\* C12: transform on a data dictionary, with N >= 1 fitted instances and M
\* transform groups, invokes for group i (0 <= i < M) the transform of
\* fitted_instances[i mod N] and of no other instance.
C12_Rollover ==
    TransformedDict =>
        /\ Len(w_last.used) = Len(transform_on)
        /\ \A i \in 1..Len(transform_on) :
              w_last.used[i] =
                 fitted_transformers.items[
                    ((i - 1) % Len(fitted_transformers.items)) + 1].id

\* a transform with 2 fitted instances and RolloverGroups transform groups:
\* the groups went to the two instances in turn
C12_Witness ==
    /\ TransformedDict
    /\ Len(fitted_transformers.items) = 2
    /\ Len(w_last.used) = RolloverGroups
    /\ w_last.used[1] = fitted_transformers.items[1].id
    /\ w_last.used[2] = fitted_transformers.items[2].id
    /\ w_last.used[3] = fitted_transformers.items[1].id
    /\ w_last.used[1] # w_last.used[2]

\* the transform groups of the last call that write the key k
WritersOf(k) ==
    {i \in 1..Len(transform_on) :
        IF all_key_transform
        THEN \E j \in 1..Len(transform_on[i]) : transform_on[i][j] = k
        ELSE transform_on[i][1] = k}

\* what the transform of group i returned in the last call: the output of
\* its instance on the group's source keys of the input
OutputOf(i) ==
    EstTransform(
        fitted_transformers.items[((i - 1) % Len(fitted_transformers.items)) + 1],
        [j \in 1..Len(transform_on[i]) |-> w_last.X[transform_on[i][j]]])

\* what group i writes to its source key k
WrittenBy(i, k) ==
    IF ~all_key_transform THEN OutputOf(i)
    ELSE IF Len(transform_on[i]) = 1 THEN OutputOf(i)
    ELSE OutputOf(i).t[CHOOSE j \in 1..Len(transform_on[i]) :
                          /\ transform_on[i][j] = k
                          /\ \A h \in (j + 1)..Len(transform_on[i]) :
                                transform_on[i][h] # k]

\* C14: in the data transform returns, a key that is the first source key
\* of a group (all_key_transform false) holds the group's whole output, a
\* key that is the j-th source key of a group (all_key_transform true) holds
\* the group's j-th output, a single output counting as a one-element
\* sequence; every other key holds the input's value.  Of several groups
\* that write a key the last one counts.
C14_WriteBack ==
    TransformedDict =>
        /\ DOMAIN w_last.ret = DOMAIN w_last.X
        /\ \A k \in DOMAIN w_last.X :
              w_last.ret[k] =
                 IF WritersOf(k) = {} THEN w_last.X[k]
                 ELSE WrittenBy(CHOOSE i \in WritersOf(k) :
                                   \A h \in WritersOf(k) : h <= i, k)

\* a transform of a two-key group: without all_key_transform the second key
\* passed through and the first holds the pair of outputs
C14_Witness ==
    /\ w_last.op = "transform"
    /\ w_last.err = "none"
    /\ ~IsNdarray(w_last.X)
    /\ ~all_key_transform
    /\ transform_on = <<<<"X", "y">>>>
    /\ w_last.ret["y"] = w_last.X["y"]
    /\ w_last.ret["X"] = OutputOf(1)
    /\ w_last.ret["X"] # w_last.X["X"]

\* the last call was a fit or fit_transform that returned
FitSucceeded == w_last.op \in {"fit", "fit_transform"} /\ w_last.err = "none"

\* the ids of the instances held before the last call
PrevIds == {w_last.prev.items[i].id : i \in 1..Len(w_last.prev.items)}

\* C15: after a successful fit or fit_transform, fitted_instances holds one
\* newly constructed instance per fit group, in group order, however many
\* it held before; after one on a bare array it holds exactly one.
C15_FittedCount ==
    FitSucceeded =>
        /\ ~fitted_transformers.none
        /\ Len(fitted_transformers.items) =
              (IF IsNdarray(w_last.X) THEN 1 ELSE Len(fit_on))
        /\ \A i \in 1..Len(fitted_transformers.items) :
              /\ fitted_transformers.items[i].id \notin PrevIds
              /\ fitted_transformers.items[i].learned =
                    (IF IsNdarray(w_last.X) THEN w_last.X.a
                     ELSE w_last.X[fit_on[i][1]].a)
              /\ \A j \in 1..(i - 1) :
                    fitted_transformers.items[j].id < fitted_transformers.items[i].id

\* a successful refit with two fit groups of a wrapper that already held
\* instances
C15_Witness ==
    /\ FitSucceeded
    /\ ~IsNdarray(w_last.X)
    /\ Len(fit_on) = 2
    /\ ~w_last.prev.none
    /\ w_last.prev.items # <<>>
    /\ Len(fitted_transformers.items) = 2

\* the last call was the access of an attribute that the instances of a
\* fitted wrapper have
AttrOfFitted ==
    /\ w_last.op = "getattr"
    /\ w_last.name \in {"learned_", "inverse_transform"}
    /\ ~fitted_transformers.none
    /\ fitted_transformers.items # <<>>

\* the value instance i has for the attribute asked last: what it learned,
\* or for the method the array that its transform maps to the argument
ValueOf(i) ==
    IF w_last.name = "learned_" THEN fitted_transformers.items[i].learned
    ELSE CHOOSE v \in NdArrays :
            EstTransformOne(fitted_transformers.items[i], v) = w_last.arg

\* C22: the access on a wrapper with k fitted instances of an attribute the
\* wrapper does not define and the instances have returns, for k = 1, the
\* value (or call result) of the one instance itself, and for k >= 2 the
\* list of the k instances' values (or call results) in the order of
\* fitted_instances.
C22_FanOut ==
    AttrOfFitted =>
        LET k == Len(fitted_transformers.items)
        IN /\ w_last.err = "none"
           /\ w_last.ret.list = (k >= 2)
           /\ Len(w_last.ret.vals) = k
           /\ \A i \in 1..k : w_last.ret.vals[i] = ValueOf(i)

\* the access of the fitted attribute on a wrapper with FanOutGroups
\* instances returned a list of that many values
C22_Witness ==
    /\ AttrOfFitted
    /\ w_last.name = "learned_"
    /\ Len(fitted_transformers.items) = FanOutGroups
    /\ w_last.ret.list
    /\ Len(w_last.ret.vals) = FanOutGroups
\* the last call was a fit_transform of a data dictionary that returned, on
\* a wrapper whose transformer has a fit_transform of its own
CombinedFitTransform ==
    /\ w_last.op = "fit_transform"
    /\ has_fit_transform
    /\ w_last.err = "none"
    /\ ~IsNdarray(w_last.X)

\* fit(D) followed by transform(D) on the wrapper as it was configured at
\* the last call, D being the data of that call
FitThenTransform ==
    LET fitted == FitOutcome(w_last.X, Arr(0), fit_on, params_transformer,
                             0, 0).fitted
        t == TransformOutcome(fitted, w_last.X, transform_on,
                              all_key_transform)
    IN [err |-> t.err, ret |-> t.ret, n |-> Len(fitted.items)]

\* C26: for any fit_on and transform_on, fit_transform(D) on a wrapper whose
\* transformer has a combined fit_transform returns the data that fit(D)
\* followed by transform(D) returns, and leaves as many fitted instances.
C26_FitTransformEquivalence ==
    CombinedFitTransform =>
        /\ FitThenTransform.err = "none"
        /\ w_last.ret = FitThenTransform.ret
        /\ Len(fitted_transformers.items) = FitThenTransform.n
\* the last call was set_params(k = v) for a name k that get_params listed
SetListed == w_last.op = "set_params" /\ w_last.listed

\* the constructor kwargs after set_params(k = v): v merged into the earlier
\* ones when k is a parameter of the wrapped class
MergedKwargs ==
    IF w_last.k \in KwNames
    THEN [n \in DOMAIN w_last.prev_kw \cup {w_last.k} |->
            IF n = w_last.k THEN w_last.v ELSE w_last.prev_kw[n]]
    ELSE w_last.prev_kw

\* C23: after set_params(k = v) for a name k that get_params lists,
\* get_params()[k] is v and the template is a new instance built from the
\* merged constructor kwargs; every instance that a fit or fit_transform
\* constructs is a new object, not the template and not an instance of an
\* earlier fit, built from the kwargs as they are at that fit.
C23_ParameterStaging ==
    /\ SetListed =>
          /\ get_params[w_last.k] = w_last.v
          /\ transformer_init.id # w_last.prev_init.id
          /\ transformer_init.kw = MergedKwargs
    /\ FitSucceeded =>
          \A i \in 1..Len(fitted_transformers.items) :
              /\ fitted_transformers.items[i].id \notin PrevIds
              /\ fitted_transformers.items[i].id # transformer_init.id
              /\ fitted_transformers.items[i].kw = params_transformer

\* C27: set_params on a wrapper, whichever parameter it is given and
\* whether or not it raises, leaves the list of fitted instances the same
\* list of the same objects, built with the kwargs of their fit.
C27_SetParamsKeepsFitted ==
    w_last.op = "set_params" => fitted_transformers = w_last.prev

\* set_params changed a constructor kwarg of a fitted wrapper, whose
\* instance still has the kwargs it was built with
C27_Witness ==
    /\ w_last.op = "set_params"
    /\ w_last.err = "none"
    /\ w_last.k = "p"
    /\ ~fitted_transformers.none
    /\ fitted_transformers.items # <<>>
    /\ fitted_transformers.items[1].kw = w_last.prev_kw
    /\ fitted_transformers.items[1].kw # params_transformer

----------------------------------------------------------------------------
(* Claims on pipeline_constructor *)

\* the pipeline that the last call of pipeline_constructor returned
Built == b_last.name # <<>> /\ b_last.err = "none"

\* C5: the step names of every pipeline that pipeline_constructor returns
\* are pairwise distinct, also when the registry holds a token and the same
\* token followed by a digit.
C5_StepNamesUnique ==
    Built => \A i, j \in 1..Len(b_last.steps) :
                 i # j => b_last.steps[i].name # b_last.steps[j].name

\* the number of occurrences of the token at position i among the first i
\* tokens
Occurrence(toks, i) == Cardinality({h \in 1..i : toks[h] = toks[i]})

\* the token at position i occurs more than once
Repeated(toks, i) == \E h \in 1..Len(toks) : h # i /\ toks[h] = toks[i]

\* C21: for every token sequence, the pipeline built from the joined name has
\* one step per token, in order; the step of a token that occurs more than
\* once is named by the token followed by the number j of its occurrence
\* (from the left, starting at 1), the step of a token that occurs once by
\* the token itself.
C21_NameDeduplication ==
    \A toks \in TokenSeqs :
        (b_last.op = "construct" /\ b_last.err = "none"
            /\ b_last.name = Join(toks)) =>
            /\ Len(b_last.steps) = Len(toks)
            /\ \A i \in 1..Len(toks) :
                  b_last.steps[i].name =
                     (IF Repeated(toks, i)
                      THEN toks[i] \o Str(Occurrence(toks, i))
                      ELSE toks[i])

\* the name 'a--b--a--a' gave the steps a1, b, a2, a3
C21_Witness ==
    /\ b_last.op = "construct"
    /\ b_last.err = "none"
    /\ b_last.name = <<"a", "-", "-", "b", "-", "-", "a", "-", "-", "a">>
    /\ Len(b_last.steps) = 4
    /\ b_last.steps[1].name = <<"a", "1">>
    /\ b_last.steps[2].name = <<"b">>
    /\ b_last.steps[3].name = <<"a", "2">>
    /\ b_last.steps[4].name = <<"a", "3">>

\* the last call changed the object of the step b_last.target
StepChanged == b_last.op \in {"set_params", "fit"}

\* C20: the objects of a built pipeline are copies of their own: no two
\* steps hold the same object and none holds the registry's; set_params or
\* fit on one step leaves the registry's templates and every other step as
\* they were; a pipeline built afterwards has the templates' original state
\* in every step.
C20_BuilderIndependence ==
    /\ b_reg = [t \in Tokens |-> TemplateState]
    /\ \A i \in 1..Len(b_last.steps) :
          /\ b_last.steps[i].ref # TemplateRef(b_last.steps[i].object)
          /\ \A j \in 1..Len(b_last.steps) :
                i # j => b_last.steps[i].ref # b_last.steps[j].ref
    /\ StepChanged =>
          \A j \in 1..Len(b_last.steps) :
              j # b_last.target => b_last.steps[j] = b_last.prev[j]
    /\ (b_last.op = "construct" /\ b_last.err = "none") =>
          \A i \in 1..Len(b_last.steps) : b_last.steps[i].state = TemplateState

\* set_params changed one step of a pipeline with a token that occurs twice;
\* the other occurrence kept its parameter
C20_Witness ==
    /\ b_last.op = "set_params"
    /\ \E i \in 1..Len(b_last.steps) : \E j \in 1..Len(b_last.steps) :
          /\ i # j
          /\ i = b_last.target
          /\ b_last.steps[i].object = b_last.steps[j].object
          /\ b_last.steps[i].state.p = 1
          /\ b_last.steps[j].state.p = 0


----------------------------------------------------------------------------
(* Claims on PipelineDD and Pipeline *)

\* every step of the pipeline is fitted
AllFitted ==
    \A i \in 1..Len(steps) :
        ~steps[i].est.fitted.none /\ steps[i].est.fitted.items # <<>>

\* the last call was score(X, y=k) with a key k of X
ScoreByKey ==
    /\ p_last.op = "score"
    /\ p_last.y.kind = "str"
    /\ p_last.y.key \in DOMAIN p_last.X

\* the outcome of score(X, y=X[k]) for the X and k of the last call
ScoreByArray == ScoreOutcome(steps, p_last.X, YArray(p_last.X[p_last.y.key]))

\* the last call had the outcome of score(X, y=X[k]): the same exception or
\* else the same labels given to the terminal step and the same value
SameAsScoreByArray ==
    /\ p_last.err = ScoreByArray.err
    /\ p_last.labels = ScoreByArray.labels
    /\ p_last.score = ScoreByArray.score

\* some step before the last writes the key k in its transform
LabelKeyWritten(k) ==
    \E i \in 1..(Len(steps) - 1) : k \in WrittenKeys(steps[i].est)

\* C3 as stated: score(X, y=k) passes the terminal step the same labels and
\* returns the same value as score(X, y=X[k]), for every fitted pipeline,
\* also one whose non-terminal steps overwrite the key k.
C3_ScoreLabelEquivalence == (ScoreByKey /\ AllFitted) => SameAsScoreByArray

\* C3 as amended: score(X, y=k) passes the terminal step the same labels
\* and returns the same value as score(X, y=X[k]) when no step before the
\* last writes the key k in its transform.
C3_ScoreLabelEquivalenceUnwritten ==
    (ScoreByKey /\ ~LabelKeyWritten(p_last.y.key)) => SameAsScoreByArray

\* score by the key "y" went through a fitted pipeline with a transformer
\* before the model, none of which writes "y"
C3_Witness ==
    /\ ScoreByKey
    /\ p_last.y.key = "y"
    /\ p_last.err = "none"
    /\ AllFitted
    /\ Len(steps) >= 2
    /\ ~LabelKeyWritten("y")
    /\ p_last.labels # p_last.X["X"]

PredictOps == {"predict", "predict_proba", "predict_log_proba"}

\* the overrides of the last call that name the step called name, as the
\* keyword arguments they stand for
OverridesFor(name) ==
    {[param |-> SplitParam(p_last.params[i].pname),
      pval |-> p_last.params[i].pval] :
        i \in {h \in 1..Len(p_last.params) :
                 SplitStep(p_last.params[h].pname) = name}}

\* every override of the last call has the form <stepname>__<paramname> and
\* names a step of the pipeline
WellFormedOverrides ==
    \A i \in 1..Len(p_last.params) :
        /\ HasSep(p_last.params[i].pname)
        /\ SplitStep(p_last.params[i].pname) \in StepNames(steps)

\* C4: in predict / predict_proba / predict_log_proba every override is
\* delivered to exactly the step it names: to the transform call of a step
\* before the last, to the predict call of the last step, for pipelines of
\* every length >= 1.
C4_OverridesRouted ==
    (p_last.op \in PredictOps /\ WellFormedOverrides /\ AllFitted)
        => /\ p_last.err = "none"
           /\ Len(p_last.calls) = Len(steps)
           /\ \A i \in 1..Len(steps) :
                 /\ p_last.calls[i].name = steps[i].name
                 /\ p_last.calls[i].method =
                       (IF i < Len(steps) THEN "transform" ELSE p_last.op)
                 /\ p_last.calls[i].kwargs = OverridesFor(steps[i].name)

\* C11: score of a fitted pipeline with a y that is neither a key nor an
\* array fails with the type error before the transform of any step has
\* been invoked.
C11_MalformedYAtEntry ==
    (p_last.op = "score" /\ p_last.y.kind = "other" /\ AllFitted)
        => (p_last.err = "TypeError" /\ p_last.calls = <<>>)

\* the operations that take a data dictionary and return a transformed one
\* or a score
StageOps == {"transform", "score", "step_transform", "step_fit_transform"}

\* C13: after transform or fit_transform of a step and after transform or
\* score of the pipeline, the data dictionary the caller gave has the keys
\* and values it had before the call.
C13_CopyIsolation ==
    p_last.op \in StageOps => p_last.after = p_last.X

\* a transform of the pipeline returned data that differs from its input,
\* which is as it was
C13_Witness ==
    /\ p_last.op = "transform"
    /\ p_last.err = "none"
    /\ p_last.ret # p_last.X
    /\ p_last.after = p_last.X

\* the steps of the pipeline that have transform, in step order
TransformCapable == SelectSeq(steps, LAMBDA st : HasTransform(st.est))

\* a step that has transform comes after one that has not
TransformAfterNonTransform ==
    \E i \in 1..Len(steps) : \E j \in (i + 1)..Len(steps) :
        ~HasTransform(steps[i].est) /\ HasTransform(steps[j].est)

\* C16: a transform of the pipeline that returns has applied the transform
\* of every step that has one, in step order, each to the output of the one
\* before, and has warned exactly when a step that has transform comes after
\* one that has not.
C16_TransformPropagates ==
    (p_last.op = "transform" /\ p_last.err = "none")
        => /\ p_last.ret =
                 TransformSteps(TransformCapable, 1, Len(TransformCapable),
                                p_last.X).ret
           /\ (p_last.calls # <<>>) <=> TransformAfterNonTransform

\* a transform went past a step without transform, warned, and the steps
\* after it changed the data
C16_Witness ==
    /\ p_last.op = "transform"
    /\ p_last.err = "none"
    /\ p_last.calls # <<>>
    /\ ~HasTransform(steps[1].est)
    /\ p_last.ret # p_last.X


----------------------------------------------------------------------------
(* Claims on PipelineSearchCV *)

\* the fold units of the evaluation in progress that have started
Started == {f \in 1..Len(s_eval.folds) : s_eval.folds[f].st # "pending"}

C7_PartitionsDistinctFromCaller ==
    /\ s_X = CallerData
    /\ \A f \in Started : \A k \in SearchKeys :
          /\ s_eval.folds[f].train[k].obj # CallerData[k].obj
          /\ s_eval.folds[f].test[k].obj # CallerData[k].obj

\* C7 (amended): the caller's dictionary has the same keys and values as
\* before, and the values of the keys in split_transform_on of every
\* partition are objects distinct from the caller's
C7_CallerDataUnchanged ==
    /\ s_X = CallerData
    /\ \A f \in Started : \A k \in SearchKeys :
          InSplitTransformOn(k) =>
             /\ s_eval.folds[f].train[k].obj # CallerData[k].obj
             /\ s_eval.folds[f].test[k].obj # CallerData[k].obj

\* a fold unit has made its partitions, and a key outside
\* split_transform_on holds the caller's own array in them
C7_Witness ==
    \E f \in Started :
        /\ s_eval.folds[f].train["U"].obj = CallerData["U"].obj
        /\ s_eval.folds[f].train["X"].obj # CallerData["X"].obj

\* the rows of the results of the evaluation with this train_id
RowsOf(id) == {j \in 1..Len(s_results) : s_results[j].train_id = id}

\* C8: when fit has returned, the result has exactly one row for every
\* (pipeline, grid point) that was skipped
C8_SkippedHasOneRow ==
    s_pc = "done" =>
        \A i \in 1..Len(s_evals) :
            s_evals[i].skipped => Cardinality(RowsOf(s_evals[i].train_id)) = 1

\* C9: the progress counter is the split count times the number of
\* (pipeline, grid point) gone through, evaluated or skipped
C9_ProgressAccounting ==
    s_pc # "init" =>
        s_progress.n = Len(s_evals)
            * GetNSplits(s_cfg.cv, GroupsArg(s_X[split_fit_on[Len(split_fit_on)]])).n

\* C10: when the error of an unknown token is raised, no fold unit of any
\* pipeline has been fitted or evaluated
C10_UnknownTokenBeforeFolds ==
    s_err = "UnknownToken" =>
        \A i \in 1..Len(s_evals) : s_evals[i].skipped

\* a fold unit of the evaluation in progress has raised
FoldFailed == \E f \in 1..Len(s_eval.folds) : s_eval.folds[f].st = "failed"

\* C17: when the fit, the predict or a metric of a fold unit has raised,
\* fit has raised, has returned no table, and no later (pipeline, grid
\* point) evaluation has been started.
C17_WorkerFailureAborts ==
    FoldFailed =>
        /\ s_pc = "raised"
        /\ s_err = "WorkerError"
        /\ s_columns = <<>>
        /\ s_ids = s_eval.train_id

\* a fold unit raised after an earlier (pipeline, grid point) had given its
\* rows
C17_Witness ==
    /\ FoldFailed
    /\ s_pc = "raised"
    /\ s_results # <<>>
    /\ s_evals # <<>>

\* the number of folds the splitter yields
NFolds == Len(CvSplit(s_cfg.cv, s_X))

RowsAt(k, idx) == [j \in 1..Len(idx) |-> s_X[k].rows[idx[j]]]

\* C19: the train and test partitions of every fold have the keys of the
\* input; a key in split_transform_on holds the input's value indexed by
\* train_idx and by test_idx, every other key the input's value unchanged.
C19_FoldPartitioning ==
    \A f \in Started :
        /\ DOMAIN s_eval.folds[f].train = DOMAIN s_X
        /\ DOMAIN s_eval.folds[f].test = DOMAIN s_X
        /\ \A k \in DOMAIN s_X :
              IF \E i \in 1..Len(split_transform_on) : split_transform_on[i] = k
              THEN /\ s_eval.folds[f].train[k].rows =
                         RowsAt(k, s_eval.splits[f].train_idx)
                   /\ s_eval.folds[f].test[k].rows =
                         RowsAt(k, s_eval.splits[f].test_idx)
              ELSE /\ s_eval.folds[f].train[k].rows = s_X[k].rows
                   /\ s_eval.folds[f].test[k].rows = s_X[k].rows

\* a fold unit has made partitions that cut the features and leave the key
\* "U" whole
C19_Witness ==
    \E f \in Started :
        /\ Len(s_eval.folds[f].train["X"].rows) < NRows
        /\ Len(s_eval.folds[f].test["X"].rows) < NRows
        /\ s_eval.folds[f].train["X"].rows # s_eval.folds[f].test["X"].rows
        /\ s_eval.folds[f].train["U"].rows = s_X["U"].rows

\* the rows of the results that the i-th (pipeline, grid point) gone
\* through produced
RowsProduced(i) == s_evals[i].first..s_evals[i].last

\* C24: two rows of the results carry the same train_id exactly when the
\* same (pipeline, grid point) evaluation produced them, also when two grid
\* points of a pipeline filter down to the same applied overrides.
C24_RunIdentifier ==
    \A i \in 1..Len(s_evals) : \A k \in 1..Len(s_evals) :
        \A a \in RowsProduced(i) : \A b \in RowsProduced(k) :
            (s_results[a].train_id = s_results[b].train_id) <=> (i = k)

\* two grid points of one pipeline were evaluated with the same applied
\* overrides, and their rows carry different train_ids
C24_Witness ==
    \E i \in 1..Len(s_evals) : \E k \in 1..Len(s_evals) :
        /\ i # k
        /\ s_evals[i].pi = s_evals[k].pi
        /\ RowsProduced(i) # {}
        /\ RowsProduced(k) # {}
        /\ s_results[s_evals[i].first].param_updates
              = s_results[s_evals[k].first].param_updates
        /\ s_results[s_evals[i].first].train_id
              # s_results[s_evals[k].first].train_id

\* the rows a fold unit of the evaluation in progress has returned
DoneFolds == {f \in 1..Len(s_eval.folds) : s_eval.folds[f].st = "done"}

====
